---- MODULE Spec2Model ----
(***************************************************************************)
(* Model of src/analyser.py: RecordingParser turns the ordered operation   *)
(* stream of a recording into a ledger of expenses (self.expenses) while   *)
(* simulating the market prices (self.market_prices) and the per-player    *)
(* market fee (self.market_fee_per_player).                                *)
(*                                                                         *)
(* Numbers.  Prices are Python ints.  The fee and the seen price are       *)
(* Python floats; they are held here exactly, the fee in percent (0.3 is   *)
(* 30, 0.15 is 15) and every Expense field in hundredths of a resource     *)
(* unit (130.0 gold is 13000, 149.5 gold is 14950, 100 wood is 10000).     *)
(***************************************************************************)
EXTENDS Integers, Sequences, FiniteSets, TLC

VARIABLES
    aoe_data,               \* self.aoe_data: the catalog loaded by load_aoe2_data
    market_prices,          \* self.market_prices: resource name -> fair price
    market_fee_per_player,  \* self.market_fee_per_player: the entries of the defaultdict
    current_time,           \* self.current_time
    expenses,               \* self.expenses: the ledger
    file_size,              \* number of operations held by the recording
    pos,                    \* descriptor.tell(), counted in operations
    pc,                     \* "consuming" | "done" | "aborted" (an exception left parse)
    cur,                    \* the (op_type, op_data) last returned by fast.operation
    seen_prices,            \* the seen_price of each market_op call the last operation made
    runs,                   \* number of parse() calls made on this RecordingParser
    twin_prices,            \* market_prices of a second parser (SpecTwin)
    twin_fees,              \* market_fee_per_player of the second parser (SpecTwin)
    stream,                 \* the operations fast.operation returned in this run, in order (SpecClock)
    cached_tsv              \* the text of the TSV file export() wrote, << >> while there is none (SpecCache)

vars == << aoe_data, market_prices, market_fee_per_player, current_time,
           expenses, file_size, pos, pc, cur, seen_prices, runs,
           twin_prices, twin_fees, stream, cached_tsv >>

----------------------------------------------------------------------------
(* Bounds of the model *)

\* longest operation stream of one recording
MaxOps == 2
\* a bulk amount large enough to drive a price from its start to the floor
BigAmount == 30
\* milliseconds carried by a non-empty sync operation
Tick == 40
\* amount of a batch QUEUE
QueueAmount == 3
\* parse() calls made on one RecordingParser (SpecReuse)
MaxRuns == 2
\* longest operation stream of a recording given to a reused parser (SpecReuse)
MaxReuseOps == 1
\* longest operation stream of a recording whose operations are logged (SpecClock)
MaxClockOps == 4

----------------------------------------------------------------------------
(* Program constants *)

DefaultFee == 30
GuildsFee == 15
PriceStep == 3
PriceFloor == 25
TradeQuantity == 100
GuildsId == 15
ShiftAmount == 5

\* one resource unit, in the hundredths every Expense field is counted in
Hundredths == 100

resource_names == << "wood", "food", "stone", "gold" >>

TSV_COLUMN_NAMES ==
    << "ts", "type", "player", "id", "wood", "food", "gold", "stone",
       "name", "wood_market", "food_market", "stone_market" >>

----------------------------------------------------------------------------
(* Inputs *)

Players == {1, 2}
ResourceIds == {0, 1, 2, 3}
\* amount of a BUY: one click, or a shift-click
BuyAmounts == {1, ShiftAmount}
\* amount of a SELL: one click, or enough to reach the price floor
SellAmounts == {1, BigAmount}
BuildingIds == {70, 15, 999}
UnitIds == {74, 15, 999}
TechnologyIds == {15, 102, 999}

\* str(_id): the catalog is keyed by the decimal string of the id
str(x) == ToString(x)

\* The catalog file read by load_aoe2_data.  It is not part of the source
\* tree; this is a small catalog of the shape handle_action reads: two
\* groups keyed by str(id), each entry with "cost", "name" and an optional
\* "localised_name".  Tech 102 is the entry the source remarks on
\* (name != localised_name), unit 74 has no localised name, object 15 has
\* an empty one.
CatalogFile ==
    [ units_buildings |->
        [ k \in {"70", "74", "15"} |->
            CASE k = "70" -> [ cost |-> [ r \in {"wood"} |-> 25 ],
                               name |-> "House", localised_name |-> "House" ]
              [] k = "74" -> [ cost |-> [ r \in {"food"} |-> 60 ],
                               name |-> "Militia" ]
              [] k = "15" -> [ cost |-> [ r \in {"wood"} |-> 90 ],
                               name |-> "Junk", localised_name |-> "" ] ],
      techs |->
        [ k \in {"15", "102"} |->
            CASE k = "15"  -> [ cost |-> [ r \in {"food", "gold"} |->
                                             IF r = "food" THEN 300 ELSE 200 ],
                                name |-> "Guilds", localised_name |-> "Guilds" ]
              [] k = "102" -> [ cost |-> [ r \in {"food", "gold"} |->
                                             IF r = "food" THEN 800 ELSE 200 ],
                                name |-> "Middle Age",
                                localised_name |-> "Castle Age" ] ] ]

load_aoe2_data == CatalogFile

----------------------------------------------------------------------------
(* Expense *)

Expense(wood, food, gold, stone) ==
    [ wood |-> wood, food |-> food, gold |-> gold, stone |-> stone ]

\* dict.get(key, 0) on a cost mapping
cost_get(cost, key) == IF key \in DOMAIN cost THEN cost[key] ELSE 0

\* cost_to_expense with the amount left out of the products
cost_to_expense_once(cost, amount) ==
    Expense(cost_get(cost, "wood")  * Hundredths,
            cost_get(cost, "food")  * Hundredths,
            cost_get(cost, "gold")  * Hundredths,
            cost_get(cost, "stone") * Hundredths)

\* cost_to_expense(cost, amount): amount is a one-element sequence, or <<>>
\* for None (data.get('amount') of a payload without it)
cost_to_expense(cost, amount) ==
    LET n == IF amount = << >> THEN 1 ELSE amount[1]
    IN  Expense(n * cost_get(cost, "wood")  * Hundredths,
                n * cost_get(cost, "food")  * Hundredths,
                n * cost_get(cost, "gold")  * Hundredths,
                n * cost_get(cost, "stone") * Hundredths)

----------------------------------------------------------------------------
(* Market *)

\* setup_market_prices with a fair price for gold as well
setup_market_prices_with_gold ==
    [ r \in {"wood", "food", "stone", "gold"} |-> IF r = "stone" THEN 130 ELSE 100 ]

\* lines 157-161: the fair prices setup_market starts the market with
setup_market_prices == [ r \in {"wood", "food", "stone"} |->
                           IF r = "stone" THEN 130 ELSE 100 ]
\* defaultdict(lambda: 0.3): no entries yet
setup_market_fees == [ p \in {} |-> DefaultFee ]

\* defaultdict.__getitem__: a missing key is inserted with the default
fee_entries(fees, player_id) ==
    [ q \in DOMAIN fees \cup {player_id} |->
        IF q \in DOMAIN fees THEN fees[q] ELSE DefaultFee ]

\* the value a read of market_fee_per_player[player_id] returns
fee_of(fees, player_id) == fee_entries(fees, player_id)[player_id]

Market(prices, fees) == [ prices |-> prices, fees |-> fees ]

add_expense(a, b) ==
    Expense(a.wood + b.wood, a.food + b.food, a.gold + b.gold, a.stone + b.stone)

\* seen_price_of with the fair price moved before it is quoted
seen_price_of_moved(op, price, fee) ==
    LET seen == IF op = "buy"
                THEN (price + PriceStep) * (100 + fee)
                ELSE (price - PriceStep) * (100 - fee)
    IN  IF seen < PriceFloor * Hundredths THEN PriceFloor * Hundredths ELSE seen

\* lines 210-211, 213-214 and 219-220: the price the player sees, in
\* hundredths, from the fair price before the trade and the fee in percent
seen_price_of(op, price, fee) ==
    LET seen == IF op = "buy" THEN price * (100 + fee) ELSE price * (100 - fee)
    IN  IF seen < PriceFloor * Hundredths THEN PriceFloor * Hundredths ELSE seen

\* fair_price_after with the floor of 20 that the quoted game rule states
fair_price_after_floor20(op, price) ==
    LET moved == IF op = "buy" THEN price + PriceStep ELSE price - PriceStep
    IN  IF moved < 20 THEN 20 ELSE moved

\* lines 212, 215 and 221-222: the fair price the trade leaves
fair_price_after(op, price) ==
    LET moved == IF op = "buy" THEN price + PriceStep ELSE price - PriceStep
    IN  IF moved < PriceFloor THEN PriceFloor ELSE moved

\* trade_expense with the resource bought counted as a negative expense
\* (the assignment commented out at line 231)
trade_expense_gain(op, name, seen) ==
    IF op = "buy"
    THEN [ Expense(0, 0, seen, 0) EXCEPT ![name] = 0 - TradeQuantity * Hundredths ]
    ELSE [ Expense(0, 0, 0, 0) EXCEPT ![name] = TradeQuantity * Hundredths ]

\* trade_expense with the gold of a sale counted as a negative expense (the
\* Expense commented out at line 235)
trade_expense_income(op, name, seen) ==
    IF op = "buy"
    THEN Expense(0, 0, seen, 0)
    ELSE [ Expense(0, 0, 0 - seen, 0) EXCEPT ![name] = TradeQuantity * Hundredths ]

\* trade_expense with both negative amounts counted (the assignments
\* commented out at lines 231 and 235)
trade_expense_signed(op, name, seen) ==
    IF op = "buy"
    THEN [ Expense(0, 0, seen, 0) EXCEPT ![name] = 0 - TradeQuantity * Hundredths ]
    ELSE [ Expense(0, 0, 0 - seen, 0) EXCEPT ![name] = TradeQuantity * Hundredths ]

\* lines 229-238: the Expense of one trade of the resource called name
trade_expense(op, name, seen) ==
    IF op = "buy"
    THEN Expense(0, 0, seen, 0)
    ELSE [ Expense(0, 0, 0, 0) EXCEPT ![name] = TradeQuantity * Hundredths ]

\* what a call of market_op leaves and returns: the market, the Expense, the
\* seen prices it logged (line 240) in order, and whether it raised
Traded(raised, prices, fees, expense, quotes) ==
    [ raised |-> raised, prices |-> prices, fees |-> fees,
      expense |-> expense, quotes |-> quotes ]

\* market_op_unit with a price step that a player with the Guilds fee moves
\* one further
market_op_unit_biased(m, op, resource, player_id) ==
    LET name  == resource_names[resource + 1]
        fees1 == fee_entries(m.fees, player_id)
    IN  IF op \notin {"buy", "sell"}
        THEN Traded(TRUE, m.prices, m.fees, Expense(0, 0, 0, 0), << >>)
        ELSE IF name \notin DOMAIN m.prices
        THEN Traded(TRUE, m.prices, fees1, Expense(0, 0, 0, 0), << >>)
        ELSE Traded(FALSE,
                    [ m.prices EXCEPT ![name] =
                        fair_price_after(op, m.prices[name])
                        + (IF fees1[player_id] = GuildsFee THEN 1 ELSE 0) ],
                    fees1,
                    trade_expense(op, name,
                                  seen_price_of(op, m.prices[name], fees1[player_id])),
                    << seen_price_of(op, m.prices[name], fees1[player_id]) >>)

\* market_op with amount <= 1, lines 200-242, on the market m.  It raises
\* on the assert of line 204 and, the fee entry already made by line 208,
\* on market_prices[resource] for a resource that has no price.
market_op_unit(m, op, resource, player_id) ==
    LET name  == resource_names[resource + 1]
        fees1 == fee_entries(m.fees, player_id)
    IN  IF op \notin {"buy", "sell"}
        THEN Traded(TRUE, m.prices, m.fees, Expense(0, 0, 0, 0), << >>)
        ELSE IF name \notin DOMAIN m.prices
        THEN Traded(TRUE, m.prices, fees1, Expense(0, 0, 0, 0), << >>)
        ELSE Traded(FALSE,
                    [ m.prices EXCEPT ![name] = fair_price_after(op, m.prices[name]) ],
                    fees1,
                    trade_expense(op, name,
                                  seen_price_of(op, m.prices[name], fees1[player_id])),
                    << seen_price_of(op, m.prices[name], fees1[player_id]) >>)

\* the one element of a one-element set
the(S) == CHOOSE x \in S : TRUE

\* market_op_turn with the Expense assigned, not added
market_op_turn_last(acc, op, resource, player_id) ==
    the({ IF tmp.raised
          THEN [ tmp EXCEPT !.quotes = acc.quotes ]
          ELSE [ tmp EXCEPT !.quotes = acc.quotes \o tmp.quotes ] :
          tmp \in { market_op_unit(Market(acc.prices, acc.fees), op, resource, player_id) } })

\* one turn of the loop of lines 170-175: acc holds the market as the unit
\* calls so far left it, and the Expense summed so far
market_op_turn(acc, op, resource, player_id) ==
    the({ IF tmp.raised
          THEN [ tmp EXCEPT !.quotes = acc.quotes ]
          ELSE [ tmp EXCEPT !.expense = add_expense(acc.expense, tmp.expense),
                            !.quotes = acc.quotes \o tmp.quotes ] :
          tmp \in { market_op_unit(Market(acc.prices, acc.fees), op, resource, player_id) } })

RECURSIVE market_op_bulk(_, _, _, _, _)

\* the loop of lines 169-177, with i of its unit calls still to be made; an
\* exception raised by a unit call leaves the loop
market_op_bulk(acc, op, resource, i, player_id) ==
    IF i = 0
    THEN acc
    ELSE the({ IF a.raised THEN a
               ELSE market_op_bulk(market_op_turn(a, op, resource, player_id),
                                   op, resource, i - 1, player_id) :
               a \in { acc } })

\* market_op(op, resource, amount, player_id) on the market m: a call with
\* amount > 1 calls itself amount times with amount 1
market_op(m, op, resource, amount, player_id) ==
    IF amount > 1
    THEN market_op_bulk(Traded(FALSE, m.prices, m.fees, Expense(0, 0, 0, 0), << >>),
                        op, resource, amount, player_id)
    ELSE market_op_unit(m, op, resource, player_id)

----------------------------------------------------------------------------
(* Action Resolver and Ledger *)

ignored_actions ==
    { "AI_ORDER", "ATTACK_GROUND", "BACK_TO_WORK", "DELETE", "DE_ATTACK_MOVE",
      "DE_AUTOSCOUT", "DE_UNKNOWN_196", "DE_UNKNOWN_39", "DE_UNKNOWN_41",
      "FLARE", "FORMATION", "GAME", "GATE", "GATHER_POINT", "GUARD", "MOVE",
      "ORDER", "PATROL", "REPAIR", "RESIGN", "SPECIAL", "STANCE", "STOP",
      "TOWN_BELL", "UNGARRISON", "WALL", "WORK", "MAKE" }

\* record with the entry put in front of the ledger
record_in_front(ledger, time, prices, action_type, player_id, obj_id, expense, internal_name) ==
    << << time, action_type, player_id, obj_id,
          expense.wood, expense.food, expense.gold, expense.stone,
          internal_name,
          prices["wood"], prices["food"], prices["stone"] >> >> \o ledger

\* record with the stone of the Expense put before its gold
record_stone_before_gold(ledger, time, prices, action_type, player_id, obj_id, expense, internal_name) ==
    Append(ledger,
           << time, action_type, player_id, obj_id,
              expense.wood, expense.food, expense.stone, expense.gold,
              internal_name,
              prices["wood"], prices["food"], prices["stone"] >>)

\* record(): the entry appended to self.expenses; entry[1] is the name of
\* the action type
record(ledger, time, prices, action_type, player_id, obj_id, expense, internal_name) ==
    Append(ledger,
           << time, action_type, player_id, obj_id,
              expense.wood, expense.food, expense.gold, expense.stone,
              internal_name,
              prices["wood"], prices["food"], prices["stone"] >>)

\* the outcome of handle_action: what it leaves in aoe_data, the market and
\* the ledger, and whether it raised
Outcome(raised, data, prices, fees, ledger, quotes) ==
    [ raised |-> raised, aoe_data |-> data, prices |-> prices,
      fees |-> fees, expenses |-> ledger, quotes |-> quotes ]

\* better_name taking a localised name that is empty as well
better_name_any_localised(spec) ==
    IF "localised_name" \in DOMAIN spec
    THEN [ spec EXCEPT !.name = spec.localised_name ]
    ELSE spec

\* lines 397-403 for a spec that is an entry of the catalog: the entry is
\* the very dict held by aoe_data, so the assignment to spec['name'] is an
\* assignment to the catalog
better_name(spec) ==
    IF "localised_name" \in DOMAIN spec /\ spec.localised_name # ""
    THEN [ spec EXCEPT !.name = spec.localised_name ]
    ELSE spec

\* catalog_action with an id that the catalog does not hold skipped
catalog_action_skips_miss(action_type, group, _id, amount, player_id, fees) ==
    IF str(_id) \notin DOMAIN aoe_data[group]
    THEN Outcome(FALSE, aoe_data, market_prices, market_fee_per_player, expenses, << >>)
    ELSE LET spec    == aoe_data[group][str(_id)]
             expense == cost_to_expense(spec.cost, amount)
             spec1   == better_name(spec)
         IN  Outcome(FALSE,
                     [ aoe_data EXCEPT ![group][str(_id)] = spec1 ],
                     market_prices, fees,
                     record(expenses, current_time, market_prices, action_type,
                            player_id, _id, expense, spec1.name),
                     << >>)

\* catalog_action with setup_market run again before the entry is recorded
catalog_action_resets_market(action_type, group, _id, amount, player_id, fees) ==
    IF str(_id) \notin DOMAIN aoe_data[group]
    THEN Outcome(TRUE, aoe_data, market_prices, market_fee_per_player, expenses, << >>)
    ELSE LET spec    == aoe_data[group][str(_id)]
             expense == cost_to_expense(spec.cost, amount)
             spec1   == better_name(spec)
         IN  Outcome(FALSE,
                     [ aoe_data EXCEPT ![group][str(_id)] = spec1 ],
                     setup_market_prices, fees,
                     record(expenses, current_time, setup_market_prices, action_type,
                            player_id, _id, expense, spec1.name),
                     << >>)

\* catalog_action with the Guilds fee assigned before the catalog is read
catalog_action_fee_first(action_type, group, _id, amount, player_id, fees) ==
    IF str(_id) \notin DOMAIN aoe_data[group]
    THEN Outcome(TRUE, aoe_data, market_prices, fees, expenses, << >>)
    ELSE LET spec    == aoe_data[group][str(_id)]
             expense == cost_to_expense(spec.cost, amount)
             spec1   == better_name(spec)
         IN  Outcome(FALSE,
                     [ aoe_data EXCEPT ![group][str(_id)] = spec1 ],
                     market_prices, fees,
                     record(expenses, current_time, market_prices, action_type,
                            player_id, _id, expense, spec1.name),
                     << >>)

\* the branches BUILD, QUEUE, DE_QUEUE and RESEARCH, up to the call of record
catalog_action(action_type, group, _id, amount, player_id, fees) ==
    IF str(_id) \notin DOMAIN aoe_data[group]
    THEN Outcome(TRUE, aoe_data, market_prices, market_fee_per_player, expenses, << >>)
    ELSE LET spec    == aoe_data[group][str(_id)]
             expense == cost_to_expense(spec.cost, amount)
             spec1   == better_name(spec)
         IN  Outcome(FALSE,
                     [ aoe_data EXCEPT ![group][str(_id)] = spec1 ],
                     market_prices, fees,
                     record(expenses, current_time, market_prices, action_type,
                            player_id, _id, expense, spec1.name),
                     << >>)

\* trade_action recording the prices the trade was made at
trade_action_records_quoted(action_type, op, data) ==
    LET r == market_op(Market(market_prices, market_fee_per_player), op,
                       data.resource_id, data.amount, data.player_id)
    IN  IF r.raised
        THEN Outcome(TRUE, aoe_data, r.prices, r.fees, expenses, r.quotes)
        ELSE Outcome(FALSE, aoe_data, r.prices, r.fees,
                     record(expenses, current_time, market_prices, action_type,
                            data.player_id, 0, r.expense,
                            IF op = "buy"
                            THEN "buy "  \o resource_names[data.resource_id + 1]
                            ELSE "sell " \o resource_names[data.resource_id + 1]),
                     r.quotes)

\* the branches BUY and SELL: spec is a fresh dict with a name only
trade_action(action_type, op, data) ==
    LET r == market_op(Market(market_prices, market_fee_per_player), op,
                       data.resource_id, data.amount, data.player_id)
    IN  IF r.raised
        THEN Outcome(TRUE, aoe_data, r.prices, r.fees, expenses, r.quotes)
        ELSE Outcome(FALSE, aoe_data, r.prices, r.fees,
                     record(expenses, current_time, r.prices, action_type,
                            data.player_id, 0, r.expense,
                            IF op = "buy"
                            THEN "buy "  \o resource_names[data.resource_id + 1]
                            ELSE "sell " \o resource_names[data.resource_id + 1]),
                     r.quotes)

\* set_guilds_fee lowering the fee of every player that has an entry
set_guilds_fee_of_all(fees, player_id) ==
    [ q \in DOMAIN fees \cup {player_id} |-> GuildsFee ]

\* a Guilds research that switches the fee of the player back and forth
set_guilds_fee_toggles(fees, player_id) ==
    [ q \in DOMAIN fees \cup {player_id} |->
        IF q # player_id THEN fees[q]
        ELSE IF fee_of(fees, player_id) = GuildsFee THEN DefaultFee ELSE GuildsFee ]

\* market_fee_per_player[player_id] = 0.15
set_guilds_fee(fees, player_id) ==
    [ q \in DOMAIN fees \cup {player_id} |->
        IF q = player_id THEN GuildsFee ELSE fees[q] ]

amount_of(data) == IF "amount" \in DOMAIN data THEN << data.amount >> ELSE << >>

\* handle_action with CREATE and TRIBUTE returned from as ignored actions are
handle_action_lenient(action_type, data) ==
    CASE action_type = "BUILD" ->
           catalog_action(action_type, "units_buildings", data.building_id,
                          << >>, data.player_id, market_fee_per_player)
      [] action_type = "BUY" -> trade_action(action_type, "buy", data)
      [] action_type \in {"DE_QUEUE", "QUEUE"} ->
           catalog_action(action_type, "units_buildings", data.unit_id,
                          amount_of(data), data.player_id, market_fee_per_player)
      [] action_type = "RESEARCH" ->
           catalog_action(action_type, "techs", data.technology_id, << >>,
                          data.player_id,
                          IF data.technology_id = GuildsId
                          THEN set_guilds_fee(market_fee_per_player, data.player_id)
                          ELSE market_fee_per_player)
      [] action_type = "SELL" -> trade_action(action_type, "sell", data)
      [] OTHER ->
           Outcome(FALSE, aoe_data, market_prices, market_fee_per_player, expenses, << >>)

\* handle_action with the test of the id 15 made after the branches, on the
\* id of whatever object the action named
handle_action_any_object_15(action_type, data) ==
    CASE action_type = "BUILD" ->
           catalog_action(action_type, "units_buildings", data.building_id,
                          << >>, data.player_id,
                          IF data.building_id = GuildsId
                          THEN set_guilds_fee(market_fee_per_player, data.player_id)
                          ELSE market_fee_per_player)
      [] action_type = "BUY" -> trade_action(action_type, "buy", data)
      [] action_type \in {"DE_QUEUE", "QUEUE"} ->
           catalog_action(action_type, "units_buildings", data.unit_id,
                          amount_of(data), data.player_id,
                          IF data.unit_id = GuildsId
                          THEN set_guilds_fee(market_fee_per_player, data.player_id)
                          ELSE market_fee_per_player)
      [] action_type \in {"CREATE", "TRIBUTE"} ->
           Outcome(TRUE, aoe_data, market_prices, market_fee_per_player, expenses, << >>)
      [] action_type = "RESEARCH" ->
           catalog_action(action_type, "techs", data.technology_id, << >>,
                          data.player_id,
                          IF data.technology_id = GuildsId
                          THEN set_guilds_fee(market_fee_per_player, data.player_id)
                          ELSE market_fee_per_player)
      [] action_type = "SELL" -> trade_action(action_type, "sell", data)
      [] OTHER ->
           Outcome(FALSE, aoe_data, market_prices, market_fee_per_player, expenses, << >>)

\* handle_action with the raise of line 394 in place: an action that is
\* neither handled nor on the ignore-list raises
handle_action_strict(action_type, data) ==
    CASE action_type = "BUILD" ->
           catalog_action(action_type, "units_buildings", data.building_id,
                          << >>, data.player_id, market_fee_per_player)
      [] action_type = "BUY" -> trade_action(action_type, "buy", data)
      [] action_type \in {"DE_QUEUE", "QUEUE"} ->
           catalog_action(action_type, "units_buildings", data.unit_id,
                          amount_of(data), data.player_id, market_fee_per_player)
      [] action_type \in {"CREATE", "TRIBUTE"} ->
           Outcome(TRUE, aoe_data, market_prices, market_fee_per_player, expenses, << >>)
      [] action_type = "RESEARCH" ->
           catalog_action(action_type, "techs", data.technology_id, << >>,
                          data.player_id,
                          IF data.technology_id = GuildsId
                          THEN set_guilds_fee(market_fee_per_player, data.player_id)
                          ELSE market_fee_per_player)
      [] action_type = "SELL" -> trade_action(action_type, "sell", data)
      [] OTHER ->
           Outcome(action_type \notin ignored_actions,
                   aoe_data, market_prices, market_fee_per_player, expenses, << >>)

handle_action(action_type, data) ==
    CASE action_type = "BUILD" ->
           catalog_action(action_type, "units_buildings", data.building_id,
                          << >>, data.player_id, market_fee_per_player)
      [] action_type = "BUY" -> trade_action(action_type, "buy", data)
      [] action_type \in {"DE_QUEUE", "QUEUE"} ->
           catalog_action(action_type, "units_buildings", data.unit_id,
                          amount_of(data), data.player_id, market_fee_per_player)
      [] action_type \in {"CREATE", "TRIBUTE"} ->
           Outcome(TRUE, aoe_data, market_prices, market_fee_per_player, expenses, << >>)
      [] action_type = "RESEARCH" ->
           catalog_action(action_type, "techs", data.technology_id, << >>,
                          data.player_id,
                          IF data.technology_id = GuildsId
                          THEN set_guilds_fee(market_fee_per_player, data.player_id)
                          ELSE market_fee_per_player)
      [] action_type = "SELL" -> trade_action(action_type, "sell", data)
      [] OTHER ->
           \* an ignored action, or an unhandled one (logged): return
           Outcome(FALSE, aoe_data, market_prices, market_fee_per_player, expenses, << >>)

----------------------------------------------------------------------------
(* Timeline Driver *)

\* route_op with a clock that every action advances by one millisecond
route_op_action_ticks(op_type, op_data) ==
    IF op_type = "ACTION"
    THEN handle_action(op_data[1], op_data[2]) @@ [ current_time |-> current_time + 1 ]
    ELSE Outcome(FALSE, aoe_data, market_prices, market_fee_per_player, expenses, << >>)
         @@ [ current_time |-> IF op_type = "SYNC"
                               THEN current_time + op_data[1]
                               ELSE current_time ]

\* route_op with a sync that adds its second field to the clock as well
route_op_adds_dropped(op_type, op_data) ==
    IF op_type = "ACTION"
    THEN handle_action(op_data[1], op_data[2]) @@ [ current_time |-> current_time ]
    ELSE Outcome(FALSE, aoe_data, market_prices, market_fee_per_player, expenses, << >>)
         @@ [ current_time |-> IF op_type = "SYNC"
                               THEN current_time + op_data[1] + op_data[2]
                               ELSE current_time ]

\* route_op: what one operation does to the parser, and whether it raised
route_op(op_type, op_data) ==
    IF op_type = "ACTION"
    THEN handle_action(op_data[1], op_data[2]) @@ [ current_time |-> current_time ]
    ELSE Outcome(FALSE, aoe_data, market_prices, market_fee_per_player, expenses, << >>)
         @@ [ current_time |-> IF op_type = "SYNC"
                               THEN current_time + op_data[1]
                               ELSE current_time ]

\* one turn of the loop of parse(), lines 315-317: fast.operation returns
\* (op_type, op_data) and route_op handles it; the loop then reads on, ends
\* with the recording, or is left by the exception
turn(op_type, op_data) ==
    \E r \in { route_op(op_type, op_data) } :
        /\ cur' = << op_type, op_data >>
        /\ seen_prices' = r.quotes
        /\ pos' = pos + 1
        /\ aoe_data' = r.aoe_data
        /\ market_prices' = r.prices
        /\ market_fee_per_player' = r.fees
        /\ expenses' = r.expenses
        /\ current_time' = r.current_time
        /\ pc' = IF r.raised THEN "aborted"
                 ELSE IF pos + 1 < file_size THEN "consuming" ELSE "done"
        /\ UNCHANGED << file_size, runs, cached_tsv >>

\* a turn of the loop of the one parser of the program
operation(op_type, op_data) ==
    /\ turn(op_type, op_data)
    /\ UNCHANGED << twin_prices, twin_fees, stream >>

\* reading with a loop that needs an operation after the one it reads
reading_needs_marker == pc = "consuming" /\ pos + 1 < file_size

\* while descriptor.tell() < file_size
reading == pc = "consuming" /\ pos < file_size

Sync ==
    /\ reading
    /\ \E ms \in {0, Tick}, dropped \in {0, 1} : operation("SYNC", << ms, dropped >>)

OtherOperation ==
    /\ reading
    /\ \E t \in {"VIEWLOCK", "CHAT"} : operation(t, << >>)

Build ==
    /\ reading
    /\ \E b \in BuildingIds, p \in Players :
         operation("ACTION", << "BUILD", [ building_id |-> b, player_id |-> p ] >>)

Queue ==
    /\ reading
    /\ \E t \in {"QUEUE", "DE_QUEUE"}, u \in UnitIds, p \in Players :
         operation("ACTION", << t, [ unit_id |-> u, amount |-> QueueAmount, player_id |-> p ] >>)

QueueNoAmount ==
    /\ reading
    /\ \E t \in {"QUEUE", "DE_QUEUE"}, p \in Players :
         operation("ACTION", << t, [ unit_id |-> 74, player_id |-> p ] >>)

Research ==
    /\ reading
    /\ \E t \in TechnologyIds, p \in Players :
         operation("ACTION", << "RESEARCH", [ technology_id |-> t, player_id |-> p ] >>)

Buy ==
    /\ reading
    /\ \E r \in ResourceIds, n \in BuyAmounts, p \in Players :
         operation("ACTION", << "BUY", [ resource_id |-> r, amount |-> n, player_id |-> p ] >>)

Sell ==
    /\ reading
    /\ \E r \in ResourceIds, n \in SellAmounts, p \in Players :
         operation("ACTION", << "SELL", [ resource_id |-> r, amount |-> n, player_id |-> p ] >>)

Unsupported ==
    /\ reading
    /\ \E t \in {"CREATE", "TRIBUTE"} :
         operation("ACTION", << t, [ player_id |-> 1 ] >>)

Ignored ==
    /\ reading
    /\ \E t \in {"MOVE", "STOP"} :
         operation("ACTION", << t, [ player_id |-> 1 ] >>)

Unhandled ==
    /\ reading
    /\ operation("ACTION", << "FOLLOW", [ player_id |-> 1 ] >>)

\* RecordingParser(args): load_aoe2_data and setup_market
Constructed ==
    /\ aoe_data = load_aoe2_data
    /\ market_prices = setup_market_prices
    /\ market_fee_per_player = setup_market_fees

\* the program as __main__ runs it: a new RecordingParser, whose parse() is
\* at the head of its loop over a recording of file_size operations
Init ==
    /\ Constructed
    /\ current_time = 0
    /\ expenses = << >>
    /\ file_size \in 0..MaxOps
    /\ pos = 0
    /\ pc = IF 0 < file_size THEN "consuming" ELSE "done"
    /\ cur = << "START", << >> >>
    /\ seen_prices = << >>
    /\ runs = 1
    /\ twin_prices = setup_market_prices
    /\ twin_fees = setup_market_fees
    /\ stream = << >>
    /\ cached_tsv = << >>

Next ==
    \/ Sync
    \/ OtherOperation
    \/ Build
    \/ Queue
    \/ QueueNoAmount
    \/ Research
    \/ Buy
    \/ Sell
    \/ Unsupported
    \/ Ignored
    \/ Unhandled

Spec == Init /\ [][Next]_vars

----------------------------------------------------------------------------
(* A RecordingParser that is used for more than one recording *)

\* parse(filename) called on the parser once more: lines 267-272 and the
\* head of the loop over a recording of n operations
parse(n) ==
    /\ current_time' = 0
    /\ expenses' = << >>
    /\ file_size' = n
    /\ pos' = 0
    /\ pc' = IF 0 < n THEN "consuming" ELSE "done"
    /\ cur' = << "START", << >> >>
    /\ seen_prices' = << >>
    /\ UNCHANGED << aoe_data, market_prices, market_fee_per_player,
                    twin_prices, twin_fees, stream, cached_tsv >>

Reparse ==
    /\ pc \in {"done", "aborted"}
    /\ runs < MaxRuns
    /\ runs' = runs + 1
    /\ \E n \in 0..MaxReuseOps : parse(n)

InitReuse ==
    /\ Constructed
    /\ current_time = 0
    /\ expenses = << >>
    /\ file_size \in 0..MaxReuseOps
    /\ pos = 0
    /\ pc = IF 0 < file_size THEN "consuming" ELSE "done"
    /\ cur = << "START", << >> >>
    /\ seen_prices = << >>
    /\ runs = 1
    /\ twin_prices = setup_market_prices
    /\ twin_fees = setup_market_fees
    /\ stream = << >>
    /\ cached_tsv = << >>

NextReuse == Next \/ Reparse

SpecReuse == InitReuse /\ [][NextReuse]_vars

----------------------------------------------------------------------------
(* Two parsers reading recordings that differ in players and Guilds only *)

\* both parsers read a Buy or Sell of the same resource (wood or stone) and
\* amount, the first made by player p, the second by player q
TwinTrade ==
    /\ reading
    /\ \E t \in {"BUY", "SELL"}, r \in {0, 2}, p \in Players, q \in Players :
         \E n \in IF t = "BUY" THEN BuyAmounts ELSE SellAmounts :
           /\ turn("ACTION", << t, [ resource_id |-> r, amount |-> n, player_id |-> p ] >>)
           /\ \E tw \in { market_op(Market(twin_prices, twin_fees),
                                    IF t = "BUY" THEN "buy" ELSE "sell", r, n, q) } :
                /\ twin_prices' = tw.prices
                /\ twin_fees' = tw.fees
                /\ UNCHANGED stream

\* the first parser reads a Research of Guilds that the second does not
TwinGuildsFirst ==
    /\ reading
    /\ \E p \in Players :
         operation("ACTION", << "RESEARCH", [ technology_id |-> GuildsId, player_id |-> p ] >>)

\* the second parser reads a Research of Guilds that the first does not
TwinGuildsSecond ==
    /\ reading
    /\ \E q \in Players : twin_fees' = set_guilds_fee(twin_fees, q)
    /\ twin_fees' # twin_fees
    /\ UNCHANGED << aoe_data, market_prices, market_fee_per_player, current_time,
                    expenses, file_size, pos, pc, cur, seen_prices, runs, twin_prices,
                    stream, cached_tsv >>

NextTwin == TwinTrade \/ TwinGuildsFirst \/ TwinGuildsSecond

SpecTwin == Init /\ [][NextTwin]_vars

----------------------------------------------------------------------------
(* One parser reading a longer recording, the operations it read logged *)

\* a turn of the loop of parse() that is logged: the operation read, and
\* len(self.expenses) as route_op left it
logged(op_type, op_data) ==
    /\ turn(op_type, op_data)
    /\ stream' = Append(stream, [ type |-> op_type, data |-> op_data,
                                  rows |-> Len(expenses') ])
    /\ UNCHANGED << twin_prices, twin_fees >>

\* the actions a logged recording holds
LoggedActions ==
    { << "BUILD", [ building_id |-> 70, player_id |-> 1 ] >>,
      << "BUILD", [ building_id |-> 999, player_id |-> 1 ] >>,
      << "RESEARCH", [ technology_id |-> GuildsId, player_id |-> 2 ] >>,
      << "BUY", [ resource_id |-> 0, amount |-> 1, player_id |-> 2 ] >>,
      << "MOVE", [ player_id |-> 1 ] >>,
      << "FOLLOW", [ player_id |-> 1 ] >> }

SyncLogged ==
    /\ reading
    /\ \E ms \in {0, Tick}, dropped \in {0, 1} : logged("SYNC", << ms, dropped >>)

OtherLogged ==
    /\ reading
    /\ logged("VIEWLOCK", << >>)

ActionLogged ==
    /\ reading
    /\ \E a \in LoggedActions : logged("ACTION", a)

InitClock ==
    /\ Constructed
    /\ current_time = 0
    /\ expenses = << >>
    /\ file_size \in 0..MaxClockOps
    /\ pos = 0
    /\ pc = IF 0 < file_size THEN "consuming" ELSE "done"
    /\ cur = << "START", << >> >>
    /\ seen_prices = << >>
    /\ runs = 1
    /\ twin_prices = setup_market_prices
    /\ twin_fees = setup_market_fees
    /\ stream = << >>
    /\ cached_tsv = << >>

NextClock == SyncLogged \/ OtherLogged \/ ActionLogged

SpecClock == InitClock /\ [][NextClock]_vars

----------------------------------------------------------------------------
(* The loop of parse() as a process that runs on *)

\* the operations of a recording whose reading is followed to its end: all
\* of them but Queue and Sell, which end a run as Build and Buy do
NextDriver ==
    \/ Sync
    \/ OtherOperation
    \/ Build
    \/ Research
    \/ Buy
    \/ Unsupported
    \/ Ignored
    \/ Unhandled

\* the loop of parse() goes on while descriptor.tell() < file_size: a turn
\* that can be taken is taken
SpecDriver == Init /\ [][NextDriver]_vars /\ WF_vars(NextDriver)

----------------------------------------------------------------------------
(* Export and the cached TSV *)

\* The text of the TSV file is the sequence of its pieces: a tab, a line
\* break, a digit, a sign, a point, or a string (an action type, a name, a
\* column name) that holds no tab and no line break.
TAB == "\t"
NL == "\n"

RECURSIVE digits(_)
\* the decimal digits of the natural number n
digits(n) ==
    the({ IF m < 10 THEN << ToString(m) >>
          ELSE digits(m \div 10) \o << ToString(m % 10) >> : m \in { n } })

\* str(n) of an int
str_int(n) == IF n < 0 THEN << "-" >> \o digits(0 - n) ELSE digits(n)

\* str(x) of a float, x given in hundredths: the shortest decimal that reads
\* back as x, with at least one digit after the point
str_float(h) ==
    LET a == IF h < 0 THEN 0 - h ELSE h
    IN  (IF h < 0 THEN << "-" >> ELSE << >>)
        \o digits(a \div 100) \o << "." >>
        \o (IF a % 100 = 0 THEN << "0" >>
            ELSE IF a % 10 = 0 THEN << ToString((a % 100) \div 10) >>
            ELSE << ToString((a % 100) \div 10), ToString(a % 10) >>)

\* str(s) of a string
str_text(s) == IF s = "" THEN << >> ELSE << s >>

\* the columns that hold strings: type and name
nofloat_names == { "type", "name" }

\* the columns of an entry that the model counts in hundredths
InHundredths == { "wood", "food", "gold", "stone" }

\* entry[i] is a Python float: the gold of a Buy is (lines 211 and 229), and
\* so is every number of a ledger that was loaded from the cache (line 301);
\* the other numbers are ints
is_float(entry, i, loaded) == loaded \/ (entry[2] = "BUY" /\ TSV_COLUMN_NAMES[i] = "gold")

\* str(entry[i]), line 437
str_field(entry, i, loaded) ==
    IF TSV_COLUMN_NAMES[i] \in nofloat_names
    THEN str_text(entry[i])
    ELSE IF is_float(entry, i, loaded)
    THEN str_float(IF TSV_COLUMN_NAMES[i] \in InHundredths THEN entry[i] ELSE 100 * entry[i])
    ELSE str_int(IF TSV_COLUMN_NAMES[i] \in InHundredths THEN entry[i] \div 100 ELSE entry[i])

RECURSIVE join_upto(_, _, _)
\* sep.join(parts[:n])
join_upto(parts, sep, n) ==
    IF n = 0 THEN << >>
    ELSE IF n = 1 THEN parts[1]
    ELSE join_upto(parts, sep, n - 1) \o << sep >> \o parts[n]

\* sep.join(parts)
join(parts, sep) == the({ join_upto(p, sep, Len(p)) : p \in { parts } })

\* export without the line of column names
export_no_header(ledger, loaded) ==
    join([ k \in 1..Len(ledger) |->
             join([ i \in 1..Len(ledger[k]) |-> str_field(ledger[k], i, loaded) ], TAB) ],
         NL)

\* export(): the text written to the TSV file, lines 433-441
export(ledger, loaded) ==
    join(<< join([ i \in 1..Len(TSV_COLUMN_NAMES) |-> << TSV_COLUMN_NAMES[i] >> ], TAB),
            join([ k \in 1..Len(ledger) |->
                     join([ i \in 1..Len(ledger[k]) |-> str_field(ledger[k], i, loaded) ],
                          TAB) ],
                 NL) >>,
         NL)

\* text.split(sep): the pieces between the separators
split(text, sep) ==
    LET bounds == { i \in 1..Len(text) : text[i] = sep } \cup { 0, Len(text) + 1 }
        nth(k) == CHOOSE p \in bounds : Cardinality({ q \in bounds : q < p }) = k
    IN  [ k \in 1..(Cardinality(bounds) - 1) |->
            SubSeq(text, nth(k - 1) + 1, nth(k) - 1) ]

\* text.splitlines(): the lines, a line break at the very end opening no line
splitlines(text) ==
    IF text = << >> THEN << >>
    ELSE LET lines == split(text, NL)
         IN  IF lines[Len(lines)] = << >>
             THEN SubSeq(lines, 1, Len(lines) - 1)
             ELSE lines

IsDigit(t) == \E d \in 0..9 : ToString(d) = t
DigitOf(t) == CHOOSE d \in 0..9 : ToString(d) = t

RECURSIVE number_upto(_, _)
\* the number that the first n digits of ds write
number_upto(ds, n) ==
    IF n = 0 THEN 0 ELSE 10 * number_upto(ds, n - 1) + DigitOf(ds[n])

\* float(field): whether it raises ValueError and, in hundredths, the number
\* read; a number with more than two digits after the point is none the
\* model can hold
float(field) ==
    LET neg   == field # << >> /\ field[1] = "-"
        body  == IF neg THEN Tail(field) ELSE field
        dots  == { i \in 1..Len(body) : body[i] = "." }
        dot   == IF dots = {} THEN Len(body) + 1 ELSE CHOOSE i \in dots : TRUE
        whole == SubSeq(body, 1, dot - 1)
        frac  == SubSeq(body, dot + 1, Len(body))
        valid == /\ Cardinality(dots) <= 1
                 /\ Len(whole) + Len(frac) > 0
                 /\ Len(frac) <= 2
                 /\ \A i \in 1..Len(whole) : IsDigit(whole[i])
                 /\ \A i \in 1..Len(frac) : IsDigit(frac[i])
        value == 100 * number_upto(whole, Len(whole))
                 + (IF Len(frac) = 0 THEN 0
                    ELSE IF Len(frac) = 1 THEN 10 * DigitOf(frac[1])
                    ELSE 10 * DigitOf(frac[1]) + DigitOf(frac[2]))
    IN  IF valid
        THEN [ raised |-> FALSE, value |-> IF neg THEN 0 - value ELSE value ]
        ELSE [ raised |-> TRUE, value |-> 0 ]

RECURSIVE text_upto(_, _)
\* the string that the first n pieces of a field make
text_upto(field, n) ==
    IF n = 0 THEN "" ELSE text_upto(field, n - 1) \o field[n]

\* the entry line 301 builds from the fields of a line: float(field) for the
\* columns that are not in nofloat, the field itself for those that are
load_entry(fields, nofloat) ==
    [ i \in 1..Len(fields) |->
        IF i \in nofloat THEN text_upto(fields[i], Len(fields[i]))
        ELSE IF i <= Len(TSV_COLUMN_NAMES) /\ TSV_COLUMN_NAMES[i] \in InHundredths
        THEN float(fields[i]).value
        ELSE float(fields[i]).value \div 100 ]

\* line 301 raises for the fields of a line
entry_raises(fields, nofloat) ==
    \E i \in 1..Len(fields) : i \notin nofloat /\ float(fields[i]).raised

\* lines 290-303: the ledger loaded from the text of the cached TSV, and
\* whether loading raised; the entries before the one that raised are kept
load_cache(text) ==
    LET data    == [ k \in 1..Len(splitlines(text)) |-> split(splitlines(text)[k], TAB) ]
        header  == IF Len(data) = 0 THEN << >> ELSE data[1]
        found   == \A name \in nofloat_names :
                       \E i \in 1..Len(header) : header[i] = << name >>
        nofloat == { i \in 1..Len(header) : \E name \in nofloat_names : header[i] = << name >> }
        bad     == { k \in 2..Len(data) : entry_raises(data[k], nofloat) }
        last    == IF bad = {} THEN Len(data)
                   ELSE (CHOOSE k \in bad : \A j \in bad : k <= j) - 1
    IN  IF Len(data) = 0 \/ ~found
        THEN [ raised |-> TRUE, expenses |-> << >> ]
        ELSE [ raised |-> bad # {},
               expenses |-> [ k \in 1..(last - 1) |-> load_entry(data[k + 1], nofloat) ] ]

\* rp.export(args.output) after parse() returned: of the ledger parse() built
\* from the recording, or of the one it loaded from the cache
Export ==
    /\ pc \in {"done", "loaded"}
    /\ cached_tsv' = export(expenses, pc = "loaded")
    /\ pc' = "exported"
    /\ UNCHANGED << aoe_data, market_prices, market_fee_per_player, current_time,
                    expenses, file_size, pos, cur, seen_prices, runs,
                    twin_prices, twin_fees, stream >>

\* a later run of the program with accept_cache: a new RecordingParser whose
\* parse() finds the TSV file and loads the ledger from it, lines 284-303
LoadCache ==
    /\ pc = "exported"
    /\ cached_tsv # << >>
    /\ aoe_data' = load_aoe2_data
    /\ market_prices' = setup_market_prices
    /\ market_fee_per_player' = setup_market_fees
    /\ current_time' = 0
    /\ \E r \in { load_cache(cached_tsv) } :
         /\ expenses' = r.expenses
         /\ pc' = IF r.raised THEN "aborted" ELSE "loaded"
    /\ pos' = 0
    /\ cur' = << "START", << >> >>
    /\ seen_prices' = << >>
    /\ runs' = 1
    /\ UNCHANGED << file_size, twin_prices, twin_fees, stream, cached_tsv >>

\* the operations of the recordings whose ledger is exported, and the export
\* and reload
NextCache == Sync \/ Build \/ Research \/ Buy \/ Export \/ LoadCache

SpecCache == Init /\ [][NextCache]_vars

----------------------------------------------------------------------------
\* A catalog file without Guilds

\* what loads(path.read_text()) returns for a data file that has no
\* technology 15
CatalogWithoutGuilds ==
    [ CatalogFile EXCEPT !.techs = [ k \in {"102"} |-> CatalogFile.techs[k] ] ]

\* a new RecordingParser that loaded such a file, at the head of parse()
InitWithoutGuilds ==
    /\ aoe_data = CatalogWithoutGuilds
    /\ market_prices = setup_market_prices
    /\ market_fee_per_player = setup_market_fees
    /\ current_time = 0
    /\ expenses = << >>
    /\ file_size \in 0..MaxOps
    /\ pos = 0
    /\ pc = IF 0 < file_size THEN "consuming" ELSE "done"
    /\ cur = << "START", << >> >>
    /\ seen_prices = << >>
    /\ runs = 1
    /\ twin_prices = setup_market_prices
    /\ twin_fees = setup_market_fees
    /\ stream = << >>
    /\ cached_tsv = << >>

SpecWithoutGuilds == InitWithoutGuilds /\ [][Next]_vars

----------------------------------------------------------------------------
(* Properties *)

TradeOps == {"buy", "sell"}
\* resource ids that have a market price: wood, food, stone
Tradable == {0, 1, 2}
\* bulk amounts the properties quantify over
BulkAmounts == {2, ShiftAmount, BigAmount}

TheMarket == Market(market_prices, market_fee_per_player)
NoExpense == Expense(0, 0, 0, 0)
Max(a, b) == IF a < b THEN b ELSE a
LastRow == expenses[Len(expenses)]

\* cur is the action t with payload d
IsAction(t, d) == cur[1] = "ACTION" /\ cur[2] = << t, d >>

RECURSIVE UnitCalls(_, _, _, _, _)
\* n successive calls market_op(op, r, 1, p), the first on the market of
\* acc, their Expenses added up field by field
UnitCalls(acc, op, r, n, p) ==
    IF n = 0
    THEN acc
    ELSE the({ the({ UnitCalls(Traded(u.raised, u.prices, u.fees,
                                      add_expense(a.expense, u.expense), << >>),
                               op, r, n - 1, p) :
                     u \in { market_op(Market(a.prices, a.fees), op, r, 1, p) } }) :
               a \in { acc } })

\* the operation read in this step is a Buy or Sell of n > 1 units of a
\* tradable resource
BulkTradeStep ==
    /\ pc = "consuming"
    /\ cur'[1] = "ACTION"
    /\ cur'[2][1] \in {"BUY", "SELL"}
    /\ cur'[2][2].resource_id \in Tradable
    /\ cur'[2][2].amount > 1

\* C1: from every reachable market state, for buy and sell, every tradable
\* resource, every player and every N > 1, market_op(op, resource, N, player)
\* returns the field-by-field sum of the Expenses of N successive unit calls
\* started from the same state (the Expense the row records), and leaves the
\* prices and the fees as those N calls leave them.
C1_BulkIsUnitCalls ==
    [][ BulkTradeStep =>
          \A units \in { UnitCalls(Traded(FALSE, market_prices, market_fee_per_player,
                                          NoExpense, << >>),
                                   IF cur'[2][1] = "BUY" THEN "buy" ELSE "sell",
                                   cur'[2][2].resource_id, cur'[2][2].amount,
                                   cur'[2][2].player_id) } :
              /\ ~units.raised
              /\ pc' # "aborted"
              /\ market_prices' = units.prices
              /\ market_fee_per_player' = units.fees
              /\ Len(expenses') = Len(expenses) + 1
              /\ Expense(expenses'[Len(expenses')][5], expenses'[Len(expenses')][6],
                         expenses'[Len(expenses')][7], expenses'[Len(expenses')][8])
                 = units.expense ]_vars

\* a shift-buy of stone by player 2 is the first operation of the run and
\* the row it recorded carries the gold of five unit buys
C1_Witness ==
    /\ pos = 1
    /\ IsAction("BUY", [ resource_id |-> 2, amount |-> ShiftAmount, player_id |-> 2 ])
    /\ Len(expenses) = 1
    /\ expenses[1][7] = UnitCalls(Traded(FALSE, setup_market_prices, setup_market_fees,
                                         NoExpense, << >>), "buy", 2, ShiftAmount, 2).expense.gold
    /\ market_prices["stone"] = 130 + 3 * ShiftAmount

\* the Buy of wood with amount 5 by player p, made at fair wood price 100
\* and fee 0.30, recorded gold g (in hundredths) and left fair wood price w
ShiftBuyOfWood(g, w) ==
    \A p \in Players :
        ( /\ market_prices["wood"] = 100
          /\ fee_of(market_fee_per_player, p) = 30
          /\ pc = "consuming"
          /\ cur' = << "ACTION", << "BUY", [ resource_id |-> 0, amount |-> 5, player_id |-> p ] >> >> )
        => /\ pc' # "aborted"
           /\ Len(expenses') = Len(expenses) + 1
           /\ expenses'[Len(expenses')][5] = 0
           /\ expenses'[Len(expenses')][6] = 0
           /\ expenses'[Len(expenses')][7] = g
           /\ expenses'[Len(expenses')][8] = 0
           /\ market_prices'["wood"] = w

\* C2 as stated: a Buy of wood with amount 5 at fee 0.30 from fair wood
\* price 100 yields gold 130+133+136+139+142 = 680 and no other expense, and
\* the fair wood price ends at 115.
C2_Original == [][ShiftBuyOfWood(68000, 115)]_vars

\* C2 amended: the five units are quoted at 1.3 times the fair prices 100,
\* 103, 106, 109, 112, so the gold is 130+133.9+137.8+141.7+145.6 = 689 and
\* no other expense; the fair wood price ends at 115.
C2_ShiftBuyCosts689 == [][ShiftBuyOfWood(68900, 115)]_vars

C2_Witness ==
    /\ pos = 1
    /\ IsAction("BUY", [ resource_id |-> 0, amount |-> 5, player_id |-> 1 ])
    /\ expenses = << << 0, "BUY", 1, 0, 0, 0, 68900, 0, "buy wood", 115, 100, 130 >> >>
    /\ market_prices["wood"] = 115

\* C3: in every reachable market state a unit Buy of a tradable resource r
\* by player p returns gold = max(fair_price[r] * (1 + fee[p]), 25) of the
\* price before the trade and wood = food = stone = 0, and leaves
\* fair_price[r] exactly 3 higher; from fair wood price 100 and fee 0.30 the
\* gold is 130 and the new fair wood price 103.
C3_UnitBuy ==
    \A r \in Tradable, p \in Players :
        \A b \in { market_op(TheMarket, "buy", r, 1, p) } :
            LET name == resource_names[r + 1]
                fee  == fee_of(market_fee_per_player, p)
            IN  /\ ~b.raised
                /\ b.expense = Expense(0, 0, Max(market_prices[name] * (100 + fee), 2500), 0)
                /\ b.prices[name] = market_prices[name] + 3
                /\ (name = "wood" /\ market_prices[name] = 100 /\ fee = 30)
                   => (b.expense.gold = 13000 /\ b.prices["wood"] = 103)

C3_Witness ==
    /\ pos = 1
    /\ IsAction("BUY", [ resource_id |-> 0, amount |-> 1, player_id |-> 1 ])
    /\ expenses = << << 0, "BUY", 1, 0, 0, 0, 13000, 0, "buy wood", 103, 100, 130 >> >>
    /\ market_prices["wood"] = 103

ResearchedGuilds(p, n) ==
    \E j \in 1..n :
        expenses[j][2] = "RESEARCH" /\ expenses[j][4] = 15 /\ expenses[j][3] = p

RECURSIVE BuyCost(_, _, _)
\* gold, in hundredths, of n unit buys from fair price pre at fee percent
BuyCost(pre, n, fee) ==
    IF n = 0 THEN 0 ELSE pre * (100 + fee) + BuyCost(pre + 3, n - 1, fee)

\* the fair price a trade row records for the resource it names
RowPrice(row) ==
    CASE row[9] \in {"buy wood", "sell wood"} -> row[10]
      [] row[9] \in {"buy food", "sell food"} -> row[11]
      [] OTHER -> row[12]

\* C5: a player's fee is 0.30 for every trade processed before that player's
\* Research of Guilds (id 15) and 0.15 for every trade processed after it,
\* and the Research changes no other player's fee: in every reachable state
\* each player's fee is 0.15 if the ledger holds a Guilds research of that
\* player and 0.30 otherwise, every recorded Buy cost its units at the fee
\* its player had by then, and a Buy of stone at fair price 130 costs a
\* player with Guilds 149.5 gold and a player without 169.
C5_GuildsFee ==
    /\ \A p \in Players :
         /\ fee_of(market_fee_per_player, p)
            = IF ResearchedGuilds(p, Len(expenses)) THEN 15 ELSE 30
         /\ market_prices["stone"] = 130
            => market_op(TheMarket, "buy", 2, 1, p).expense.gold
               = IF ResearchedGuilds(p, Len(expenses)) THEN 14950 ELSE 16900
    /\ \A i \in 1..Len(expenses) :
         expenses[i][2] = "BUY"
         => \E n \in BuyAmounts :
              expenses[i][7]
              = BuyCost(RowPrice(expenses[i]) - 3 * n, n,
                        IF ResearchedGuilds(expenses[i][3], i - 1) THEN 15 ELSE 30)

\* player 2 researched Guilds and then bought stone at fair price 130 for
\* 149.5 gold, while player 1's fee is still 0.30
C5_Witness ==
    /\ Len(expenses) = 2
    /\ expenses[1][2] = "RESEARCH" /\ expenses[1][3] = 2 /\ expenses[1][4] = 15
    /\ expenses[2] = << 0, "BUY", 2, 0, 0, 0, 14950, 0, "buy stone", 100, 100, 133 >>
    /\ fee_of(market_fee_per_player, 2) = 15
    /\ fee_of(market_fee_per_player, 1) = 30

C8_CatalogReadOnly == aoe_data = load_aoe2_data

\* C9 as stated: every parse run starts with an empty ledger, clock 0, fair
\* prices wood 100 / food 100 / stone 130 and fee 0.30 for every player,
\* whatever recording the parser processed earlier.
C9_RunStartsFresh ==
    cur[1] = "START"
    => /\ expenses = << >>
       /\ current_time = 0
       /\ market_prices["wood"] = 100
       /\ market_prices["food"] = 100
       /\ market_prices["stone"] = 130
       /\ \A p \in Players : fee_of(market_fee_per_player, p) = 30

\* action kinds for which handle_action calls record
Recorded == {"BUILD", "QUEUE", "DE_QUEUE", "RESEARCH", "BUY", "SELL"}

\* C10: the ledger is append-only and in input order: every operation
\* leaves the ledger as it was, followed by at most one new row; a Build,
\* Queue, Research, Buy or Sell that resolves, a bulk trade included,
\* appends exactly one row, nothing else appends, and the new row is the
\* last one and carries the kind and player of the operation just read.
C10_AppendOnly ==
    [][ /\ Len(expenses') \in { Len(expenses), Len(expenses) + 1 }
        /\ SubSeq(expenses', 1, Len(expenses)) = expenses
        /\ ( /\ cur'[1] = "ACTION"
             /\ cur'[2][1] \in Recorded
             /\ pc' # "aborted" )
           <=> Len(expenses') = Len(expenses) + 1
        /\ Len(expenses') = Len(expenses) + 1
           => /\ expenses'[Len(expenses')][2] = cur'[2][1]
              /\ expenses'[Len(expenses')][3] = cur'[2][2].player_id
              /\ expenses'[Len(expenses')][1] = current_time ]_vars

\* a bulk Sell by player 2 and then a Build by player 1 were read, and the
\* ledger holds one row for each, in that order
C10_Witness ==
    /\ Len(expenses) = 2
    /\ expenses[1][2] = "SELL" /\ expenses[1][3] = 2
    /\ expenses[1][8] = 10000 * BigAmount
    /\ IsAction("BUILD", [ building_id |-> 70, player_id |-> 1 ])
    /\ expenses[2][2] = "BUILD" /\ expenses[2][3] = 1 /\ expenses[2][4] = 70
    /\ pc = "done"

\* the operations of the stream that are sync operations
IsSync(k) == stream[k].type = "SYNC"

\* the place in the stream of the action that appended row i
RowOp(i) ==
    CHOOSE k \in 1..Len(stream) :
        /\ stream[k].rows = i
        /\ (IF k = 1 THEN 0 ELSE stream[k - 1].rows) = i - 1

\* C11: with sync operations of non-negative elapsed_ms, the elapsed times
\* of the ledger rows are non-decreasing in row order, and two rows whose
\* actions have no sync operation between them in the stream carry the same
\* elapsed time.
C11_TimestampsOrdered ==
    \A i \in 1..Len(expenses), j \in 1..Len(expenses) :
        i < j
        => /\ expenses[i][1] <= expenses[j][1]
           /\ RowOp(i) < RowOp(j)
           /\ (\A k \in (RowOp(i) + 1)..(RowOp(j) - 1) : ~IsSync(k))
              => expenses[i][1] = expenses[j][1]

\* a Build and a Buy with no sync between them were recorded at 0, and a
\* Research read after a sync of Tick ms was recorded at Tick
C11_Witness ==
    /\ Len(stream) = 4
    /\ stream[1].type = "ACTION" /\ stream[1].data[1] = "BUILD"
    /\ stream[2].type = "ACTION" /\ stream[2].data[1] = "BUY"
    /\ stream[3].type = "SYNC" /\ stream[3].data[1] = Tick
    /\ stream[4].type = "ACTION" /\ stream[4].data[1] = "RESEARCH"
    /\ Len(expenses) = 3
    /\ expenses[1][1] = 0 /\ expenses[2][1] = 0 /\ expenses[3][1] = Tick

RECURSIVE ElapsedUpTo(_)
\* the sum of the elapsed_ms of the sync operations among the first n
\* operations of the stream
ElapsedUpTo(n) ==
    IF n = 0 THEN 0
    ELSE (IF IsSync(n) THEN stream[n].data[1] ELSE 0) + ElapsedUpTo(n - 1)

\* C12: after any prefix of the stream the clock equals the sum of the
\* elapsed_ms of the sync operations read so far, starting from 0: a sync
\* adds its elapsed_ms whatever its second field, and actions and all other
\* operation kinds leave the clock unchanged.
C12_ClockIsSumOfSyncs ==
    /\ Len(stream) = pos
    /\ current_time = ElapsedUpTo(Len(stream))

\* two syncs of Tick ms, one of them with a non-zero second field, an
\* action and another operation were read, and the clock is at 2 * Tick
C12_Witness ==
    /\ Len(stream) = 4
    /\ stream[1].type = "SYNC" /\ stream[1].data = << Tick, 1 >>
    /\ stream[2].type = "ACTION" /\ stream[2].data[1] = "BUILD"
    /\ stream[3].type = "SYNC" /\ stream[3].data = << Tick, 0 >>
    /\ stream[4].type = "VIEWLOCK"
    /\ current_time = 2 * Tick
    /\ Len(expenses) = 1 /\ expenses[1][1] = Tick

\* action kinds that a branch of handle_action handles
Handled == Recorded \cup {"CREATE", "TRIBUTE"}

\* C13: an action whose kind is on the ignore-list, or is neither handled
\* nor on the ignore-list, appends no ledger row and never aborts the run:
\* the ledger, the clock, the prices and the fees are unchanged and the loop
\* goes on to the next operation; the same holds, in the state the action
\* was read in, for every kind of the ignore-list.
C13_IgnoredChangesNothing ==
    [][ ( /\ cur'[1] = "ACTION"
          /\ cur'[2][1] \notin Handled )
        => /\ pc' # "aborted"
           /\ pc' = (IF pos' < file_size THEN "consuming" ELSE "done")
           /\ pos' = pos + 1
           /\ expenses' = expenses
           /\ current_time' = current_time
           /\ market_prices' = market_prices
           /\ market_fee_per_player' = market_fee_per_player
           /\ \A t \in ignored_actions \cup {cur'[2][1]} :
                handle_action(t, cur'[2][2])
                = Outcome(FALSE, aoe_data, market_prices, market_fee_per_player,
                          expenses, << >>) ]_vars

\* after a Buy, an ignored action and an unhandled one were read and left
\* the ledger, the clock and the market alone, and a Build was read next
C13_Witness ==
    /\ Len(stream) = 4
    /\ stream[1].type = "ACTION" /\ stream[1].data[1] = "BUY" /\ stream[1].rows = 1
    /\ stream[2].type = "ACTION" /\ stream[2].data[1] = "MOVE" /\ stream[2].rows = 1
    /\ stream[3].type = "ACTION" /\ stream[3].data[1] = "FOLLOW" /\ stream[3].rows = 1
    /\ stream[4].type = "ACTION" /\ stream[4].data[1] = "BUILD" /\ stream[4].rows = 2
    /\ "MOVE" \in ignored_actions
    /\ "FOLLOW" \notin ignored_actions \cup Handled
    /\ expenses[1][10] = 103 /\ expenses[2][10] = 103
    /\ pc = "done"

\* every player's fee is after the step what it was before it
FeesKept == \A p \in Players :
                fee_of(market_fee_per_player', p) = fee_of(market_fee_per_player, p)

\* C14: the market is changed by trades and by the Guilds research only:
\* Sync, Build, Queue and Research of a technology other than Guilds leave
\* the three fair prices and all fees unchanged; a Buy or Sell of resource r
\* leaves the fair prices of the other two resources and every player's fee
\* unchanged; a Guilds research leaves the three fair prices unchanged.
C14_MarketFrame ==
    [][ /\ cur'[1] = "SYNC"
           => market_prices' = market_prices /\ FeesKept
        /\ ( /\ cur'[1] = "ACTION"
             /\ cur'[2][1] \in {"BUILD", "QUEUE", "DE_QUEUE"} )
           => market_prices' = market_prices /\ FeesKept
        /\ ( /\ cur'[1] = "ACTION"
             /\ cur'[2][1] = "RESEARCH" )
           => /\ market_prices' = market_prices
              /\ cur'[2][2].technology_id # 15 => FeesKept
        /\ ( /\ cur'[1] = "ACTION"
             /\ cur'[2][1] \in {"BUY", "SELL"} )
           => /\ FeesKept
              /\ DOMAIN market_prices' = DOMAIN market_prices
              /\ \A name \in DOMAIN market_prices :
                   name # resource_names[cur'[2][2].resource_id + 1]
                   => market_prices'[name] = market_prices[name] ]_vars

\* player 1 researched Guilds, which left the prices alone, and then bought
\* stone, which moved the stone price only and left both fees alone
C14_Witness ==
    /\ Len(expenses) = 2
    /\ expenses[1][2] = "RESEARCH" /\ expenses[1][3] = 1 /\ expenses[1][4] = 15
    /\ expenses[1][10] = 100 /\ expenses[1][11] = 100 /\ expenses[1][12] = 130
    /\ IsAction("BUY", [ resource_id |-> 2, amount |-> 1, player_id |-> 1 ])
    /\ market_prices = [ setup_market_prices EXCEPT !["stone"] = 133 ]
    /\ fee_of(market_fee_per_player, 1) = 15
    /\ fee_of(market_fee_per_player, 2) = 30

\* the catalog group and the id that the action a = << kind, payload >> of
\* a Build, Queue or Research looks up
LookedUp(a) ==
    CASE a[1] = "BUILD" -> << "units_buildings", a[2].building_id >>
      [] a[1] \in {"QUEUE", "DE_QUEUE"} -> << "units_buildings", a[2].unit_id >>
      [] a[1] = "RESEARCH" -> << "techs", a[2].technology_id >>

\* the operation read in this step is a Build, Queue or Research
CatalogStep ==
    /\ cur'[1] = "ACTION"
    /\ cur'[2][1] \in {"BUILD", "QUEUE", "DE_QUEUE", "RESEARCH"}

\* C15: a Build, Queue (either variant) or Research whose id is absent from
\* its catalog group is fatal: the run aborts at that operation, no ledger
\* row is produced for it, and no operation is processed after it (every
\* operation is read by a run that has not aborted).
C15_CatalogMissAborts ==
    [][ /\ pc = "consuming"
        /\ ( /\ CatalogStep
             /\ str(LookedUp(cur'[2])[2]) \notin DOMAIN aoe_data[LookedUp(cur'[2])[1]] )
           => /\ pc' = "aborted"
              /\ expenses' = expenses
              /\ market_fee_per_player' = market_fee_per_player ]_vars

\* the first operation of a recording of two was a Queue of a unit the
\* catalog does not hold: the run aborted with an empty ledger and one
\* operation left unread
C15_Witness ==
    /\ file_size = 2 /\ pos = 1
    /\ IsAction("QUEUE", [ unit_id |-> 999, amount |-> QueueAmount, player_id |-> 1 ])
    /\ "999" \notin DOMAIN aoe_data["units_buildings"]
    /\ pc = "aborted"
    /\ expenses = << >>

\* C16: a "create" or "tribute" action is fatal: the run aborts at that
\* operation, nothing of the parser's state is changed by it, no ledger row
\* is appended for it, and no operation is processed after it.
C16_CreateTributeAbort ==
    [][ /\ pc # "aborted"
        /\ ( /\ cur'[1] = "ACTION"
             /\ cur'[2][1] \in {"CREATE", "TRIBUTE"} )
           => /\ pc' = "aborted"
              /\ expenses' = expenses
              /\ << aoe_data', market_prices', market_fee_per_player', current_time' >>
                 = << aoe_data, market_prices, market_fee_per_player, current_time >> ]_vars

\* a Build was recorded and the Tribute read after it aborted the run, the
\* ledger still holding the one row
C16_Witness ==
    /\ pos = 2
    /\ IsAction("TRIBUTE", [ player_id |-> 1 ])
    /\ pc = "aborted"
    /\ Len(expenses) = 1 /\ expenses[1][2] = "BUILD"

\* C17: a market operation on gold (resource_id 3), or of a kind other than
\* buy and sell, is fatal: market_op raises for it, for one unit and in
\* bulk, and a Buy or Sell action of gold aborts the run and produces no
\* ledger row.
C17_GoldTradeAborts ==
    [][ ( /\ cur'[1] = "ACTION"
          /\ cur'[2][1] \in {"BUY", "SELL"}
          /\ cur'[2][2].resource_id = 3 )
        => /\ pc' = "aborted"
           /\ expenses' = expenses
           /\ market_prices' = market_prices
           /\ \A op \in TradeOps, n \in {1, cur'[2][2].amount} :
                market_op(TheMarket, op, 3, n, cur'[2][2].player_id).raised
           /\ \A r \in ResourceIds, n \in {1, cur'[2][2].amount} :
                market_op(TheMarket, "tribute", r, n, cur'[2][2].player_id).raised ]_vars

\* a shift-buy of gold was the second operation read: the run aborted and
\* the ledger holds the row of the first operation only
C17_Witness ==
    /\ pos = 2
    /\ IsAction("BUY", [ resource_id |-> 3, amount |-> ShiftAmount, player_id |-> 2 ])
    /\ resource_names[3 + 1] = "gold"
    /\ pc = "aborted"
    /\ Len(expenses) = 1 /\ expenses[1][2] = "SELL"

\* the place of the column called name in a ledger row
Col(name) == CHOOSE i \in 1..Len(TSV_COLUMN_NAMES) : TSV_COLUMN_NAMES[i] = name

\* the Expense that the action a = << kind, payload >>, read in the current
\* state, is charged: of the trade for a Buy or Sell, of the catalog cost
\* for a Build, Queue or Research
Charged(a) ==
    CASE a[1] = "BUY" ->
           market_op(TheMarket, "buy", a[2].resource_id, a[2].amount, a[2].player_id).expense
      [] a[1] = "SELL" ->
           market_op(TheMarket, "sell", a[2].resource_id, a[2].amount, a[2].player_id).expense
      [] a[1] \in {"QUEUE", "DE_QUEUE"} ->
           cost_to_expense(aoe_data[LookedUp(a)[1]][str(LookedUp(a)[2])].cost, amount_of(a[2]))
      [] OTHER ->
           cost_to_expense(aoe_data[LookedUp(a)[1]][str(LookedUp(a)[2])].cost, << >>)

\* the names a row of the action a may carry
DisplayNames(a) ==
    CASE a[1] = "BUY" -> { "buy " \o resource_names[a[2].resource_id + 1] }
      [] a[1] = "SELL" -> { "sell " \o resource_names[a[2].resource_id + 1] }
      [] OTHER ->
           { aoe_data[LookedUp(a)[1]][str(LookedUp(a)[2])][f] :
               f \in {"name", "localised_name"}
                      \cap DOMAIN aoe_data[LookedUp(a)[1]][str(LookedUp(a)[2])] }

\* the operation read in this step appended a row to the ledger
RowAppended == Len(expenses') = Len(expenses) + 1

\* C18: every row appended for a resolved action has exactly these fields in
\* this order: the clock at the time of the action, the name of the action
\* kind, the player id, the object id (the building, unit or technology id,
\* 0 for Buy and Sell), the wood, food, gold and stone of the Expense, the
\* display name ("buy <resource>" / "sell <resource>" for trades), and the
\* fair prices of wood, food and stone.
C18_RowFields ==
    [][ RowAppended =>
          \A row \in { expenses'[Len(expenses')] }, e \in { Charged(cur'[2]) } :
              /\ Len(row) = 12
              /\ Len(TSV_COLUMN_NAMES) = 12
              /\ row[1] = current_time /\ Col("ts") = 1
              /\ row[2] = cur'[2][1] /\ Col("type") = 2
              /\ row[3] = cur'[2][2].player_id /\ Col("player") = 3
              /\ row[4] = (IF cur'[2][1] \in {"BUY", "SELL"} THEN 0
                           ELSE LookedUp(cur'[2])[2])
              /\ Col("id") = 4
              /\ row[5] = e.wood /\ Col("wood") = 5
              /\ row[6] = e.food /\ Col("food") = 6
              /\ row[7] = e.gold /\ Col("gold") = 7
              /\ row[8] = e.stone /\ Col("stone") = 8
              /\ row[9] \in DisplayNames(cur'[2]) /\ Col("name") = 9
              /\ row[10] = market_prices'["wood"] /\ Col("wood_market") = 10
              /\ row[11] = market_prices'["food"] /\ Col("food_market") = 11
              /\ row[12] = market_prices'["stone"] /\ Col("stone_market") = 12 ]_vars

\* a Research of Guilds by player 2, read after a sync of Tick ms, was
\* recorded field by field
C18_Witness ==
    /\ pos = 2
    /\ IsAction("RESEARCH", [ technology_id |-> 15, player_id |-> 2 ])
    /\ expenses = << << Tick, "RESEARCH", 2, 15, 0, 30000, 20000, 0, "Guilds",
                       100, 100, 130 >> >>

\* the count an action a = << kind, payload >> multiplies the catalog cost
\* by: the amount of a Queue that carries one, 1 otherwise
Count(a) ==
    IF a[1] \in {"QUEUE", "DE_QUEUE"} /\ "amount" \in DOMAIN a[2]
    THEN a[2].amount
    ELSE 1

\* what the catalog entry e costs in the resource called name, in
\* hundredths: 0 for a resource its cost map does not hold
CatalogCost(e, name) == IF name \in DOMAIN e.cost THEN 100 * e.cost[name] ELSE 0

\* C19: for a Build, Queue or Research whose id is in the catalog, the
\* Expense is the catalog cost of that id times the count, per resource: the
\* count is 1 for Build and Research and the amount for Queue (1 when the
\* amount is absent), a resource missing from the cost map counts as 0, and
\* the object id is the action's id; a Queue of the unit costing {food: 60}
\* with amount 3 gives food 180 and wood, gold, stone 0.
C19_CatalogCostTimesCount ==
    [][ ( /\ CatalogStep
          /\ str(LookedUp(cur'[2])[2]) \in DOMAIN aoe_data[LookedUp(cur'[2])[1]] )
        => /\ RowAppended
           /\ \A row \in { expenses'[Len(expenses')] },
                 e \in { aoe_data[LookedUp(cur'[2])[1]][str(LookedUp(cur'[2])[2])] } :
                /\ row[4] = LookedUp(cur'[2])[2]
                /\ row[5] = Count(cur'[2]) * CatalogCost(e, "wood")
                /\ row[6] = Count(cur'[2]) * CatalogCost(e, "food")
                /\ row[7] = Count(cur'[2]) * CatalogCost(e, "gold")
                /\ row[8] = Count(cur'[2]) * CatalogCost(e, "stone")
                /\ cur'[2][1] \in {"BUILD", "RESEARCH"} => Count(cur'[2]) = 1
                /\ ( /\ cur'[2][1] \in {"QUEUE", "DE_QUEUE"}
                     /\ e.cost = [ r \in {"food"} |-> 60 ]
                     /\ Count(cur'[2]) = 3 )
                   => << row[5], row[6], row[7], row[8] >> = << 0, 18000, 0, 0 >> ]_vars

\* a Queue of unit 74, which costs 60 food, with amount QueueAmount was
\* recorded with QueueAmount times 60 food, and a Queue of the same unit
\* without an amount with 60 food
C19_Witness ==
    /\ Len(expenses) = 2
    /\ expenses[1] = << 0, "QUEUE", 1, 74, 0, 6000 * QueueAmount, 0, 0, "Militia",
                        100, 100, 130 >>
    /\ IsAction("DE_QUEUE", [ unit_id |-> 74, player_id |-> 2 ])
    /\ expenses[2] = << 0, "DE_QUEUE", 2, 74, 0, 6000, 0, 0, "Militia", 100, 100, 130 >>
    /\ aoe_data["units_buildings"]["74"].cost = [ r \in {"food"} |-> 60 ]

\* C20: the display name of the row of a Build, Queue or Research is the
\* localized name of the catalog entry whenever that is present and not
\* empty, and the internal name the entry was loaded with otherwise (the
\* localized name absent or empty).
C20_DisplayName ==
    [][ ( /\ CatalogStep
          /\ str(LookedUp(cur'[2])[2]) \in DOMAIN aoe_data[LookedUp(cur'[2])[1]] )
        => /\ RowAppended
           /\ \A e \in { load_aoe2_data[LookedUp(cur'[2])[1]][str(LookedUp(cur'[2])[2])] } :
                expenses'[Len(expenses')][9]
                = (IF "localised_name" \in DOMAIN e /\ e.localised_name # ""
                   THEN e.localised_name
                   ELSE e.name) ]_vars

\* building 15, whose localized name is empty, was recorded under its
\* internal name, and technology 102 under its localized name, which is
\* not its internal one
C20_Witness ==
    /\ Len(expenses) = 2
    /\ expenses[1][2] = "BUILD" /\ expenses[1][4] = 15 /\ expenses[1][9] = "Junk"
    /\ load_aoe2_data["units_buildings"]["15"].localised_name = ""
    /\ IsAction("RESEARCH", [ technology_id |-> 102, player_id |-> 1 ])
    /\ expenses[2][9] = "Castle Age"
    /\ load_aoe2_data["techs"]["102"].name = "Middle Age"

\* C21: with a catalog whose costs are non-negative and actions whose
\* amounts are positive, the wood, food, gold and stone of every ledger row
\* are non-negative after any sequence of operations; a Buy row records no
\* negative resource amount and a Sell row records no negative gold.
C21_FieldsNonNegative ==
    /\ \A g \in DOMAIN load_aoe2_data : \A k \in DOMAIN load_aoe2_data[g] :
         \A r \in DOMAIN load_aoe2_data[g][k].cost : load_aoe2_data[g][k].cost[r] >= 0
    /\ \A i \in 1..Len(expenses) :
         /\ \A f \in 5..8 : expenses[i][f] >= 0
         /\ expenses[i][2] = "BUY"
            => expenses[i][5] = 0 /\ expenses[i][6] = 0 /\ expenses[i][8] = 0
         /\ expenses[i][2] = "SELL" => expenses[i][7] = 0

\* a shift-buy of food and a bulk Sell of stone were recorded: the Buy row
\* holds gold only, the Sell row stone only
C21_Witness ==
    /\ Len(expenses) = 2
    /\ expenses[1][2] = "BUY" /\ expenses[1][9] = "buy food"
    /\ expenses[1][7] > 0 /\ expenses[1][6] = 0
    /\ IsAction("SELL", [ resource_id |-> 2, amount |-> BigAmount, player_id |-> 1 ])
    /\ expenses[2][8] = 10000 * BigAmount /\ expenses[2][7] = 0

\* the action a = << kind, payload >>, read in the current state, is fatal
Fatal(a) ==
    \/ a[1] \in {"CREATE", "TRIBUTE"}
    \/ /\ a[1] \in {"BUILD", "QUEUE", "DE_QUEUE", "RESEARCH"}
       /\ str(LookedUp(a)[2]) \notin DOMAIN aoe_data[LookedUp(a)[1]]
    \/ /\ a[1] \in {"BUY", "SELL"}
       /\ a[2].resource_id \notin Tradable

\* C22: the driver is consuming until it is done: every step reads one
\* operation, the next of the stream, in the consuming state; a run aborts
\* at a fatal action only, so a stream without one is read to its end; the
\* driver is done exactly when the source is exhausted and the run has not
\* aborted, with no end-of-stream marker; and every run ends, in done with
\* the whole stream read or in a fatal abort, never in another state.
C22_DriverTerminates ==
    /\ [][ /\ pc = "consuming"
           /\ pos' = pos + 1
           /\ pos' <= file_size
           /\ file_size' = file_size
           /\ pc' = "aborted" <=> (cur'[1] = "ACTION" /\ Fatal(cur'[2])) ]_vars
    /\ [](pc \in {"consuming", "done", "aborted"})
    /\ [](pc = "done" => pos = file_size)
    /\ [](pc = "consuming" => pos < file_size)
    /\ <>(pc \in {"done", "aborted"})
    /\ <>[](pc = "done" \/ pc = "aborted")

\* a recording of two operations, neither of them fatal, was read to its
\* end and the driver is done
C22_Witness ==
    /\ file_size = 2 /\ pos = 2
    /\ pc = "done"
    /\ Len(expenses) = 1 /\ expenses[1][2] = "BUY"
    /\ cur = << "SYNC", << Tick, 0 >> >>
    /\ current_time = Tick

\* C23: for any ledger, exporting it to the TSV text and loading that text
\* back (the cache reload) gives the same number of rows in the same order,
\* with numerically identical values in every numeric field and the same
\* action type and name strings; the load does not raise.
C23_RoundTrip ==
    [][ pc = "exported"
        => /\ pc' = "loaded"
           /\ Len(expenses') = Len(expenses)
           /\ \A k \in 1..Len(expenses) :
                /\ Len(expenses'[k]) = Len(expenses[k])
                /\ \A i \in 1..Len(expenses[k]) : expenses'[k][i] = expenses[k][i] ]_vars

\* the ledger of a Sync, a Research of Guilds and a Buy of stone at 149.5
\* gold was exported and loaded back, and the ledger loaded was exported
\* again, every number now written as a float
C23_Witness ==
    /\ pc = "exported"
    /\ Len(expenses) = 1
    /\ expenses[1] = << Tick, "RESEARCH", 2, 15, 0, 30000, 20000, 0, "Guilds",
                        100, 100, 130 >>
    /\ cached_tsv = export(expenses, TRUE)
    /\ cached_tsv # export(expenses, FALSE)
    /\ load_cache(cached_tsv).expenses = expenses

\* the three price fields of a row, by resource name
RowPrices(row) ==
    [ name \in {"wood", "food", "stone"} |->
        row[Col(IF name = "wood" THEN "wood_market"
                ELSE IF name = "food" THEN "food_market" ELSE "stone_market")] ]

\* C24: the three price fields of a row are the fair prices of the state
\* reached once the row's action is fully applied: for a Buy or Sell of N
\* units of resource r the row's price of r is the fair price after all N
\* unit adjustments (the price before the trade plus 3N for a Buy, minus 3N
\* and not below 25 for a Sell), not the price the trade was quoted at, and
\* the other two are as before; the prices of a row that is not a trade are
\* those the last trade before it left.
C24_RowPricesAfterTrade ==
    [][ RowAppended =>
          \A row \in { RowPrices(expenses'[Len(expenses')]) } :
              /\ row = market_prices'
              /\ cur'[2][1] \notin {"BUY", "SELL"} => row = market_prices
              /\ cur'[2][1] \in {"BUY", "SELL"} =>
                   \A name \in DOMAIN market_prices :
                       row[name] =
                         IF name # resource_names[cur'[2][2].resource_id + 1]
                         THEN market_prices[name]
                         ELSE IF cur'[2][1] = "BUY"
                         THEN market_prices[name] + 3 * cur'[2][2].amount
                         ELSE Max(market_prices[name] - 3 * cur'[2][2].amount, 25) ]_vars

\* a shift-buy of wood at 100 was recorded with the wood price 115 it left,
\* and the Build read after it with the same prices
C24_Witness ==
    /\ Len(expenses) = 2
    /\ expenses[1][2] = "BUY" /\ expenses[1][9] = "buy wood"
    /\ expenses[1][7] = 68900
    /\ RowPrices(expenses[1]) = [ setup_market_prices EXCEPT !["wood"] = 115 ]
    /\ IsAction("BUILD", [ building_id |-> 70, player_id |-> 2 ])
    /\ RowPrices(expenses[2]) = RowPrices(expenses[1])

\* C25: an operation that aborts the run leaves no trace: after a create or
\* tribute action, a catalog action whose id is not in the catalog (a
\* Research of Guilds, id 15, included) or a trade of gold, by one unit or
\* in bulk, the ledger, the clock, the three fair prices and the fee of
\* every player are those of the state before the operation.
C25_AbortLeavesNoTrace ==
    [][ pc' = "aborted" =>
          /\ cur'[1] = "ACTION" /\ Fatal(cur'[2])
          /\ expenses' = expenses
          /\ current_time' = current_time
          /\ market_prices' = market_prices
          /\ FeesKept ]_vars

\* player 1 bought wood at the fee 0.30 and then researched Guilds, which
\* the catalog does not have: the run aborted and the fee is still 0.30
C25_Witness ==
    /\ pc = "aborted"
    /\ "15" \notin DOMAIN aoe_data.techs
    /\ IsAction("RESEARCH", [ technology_id |-> GuildsId, player_id |-> 1 ])
    /\ Len(expenses) = 1 /\ expenses[1][2] = "BUY" /\ expenses[1][3] = 1
    /\ market_prices["wood"] = 103
    /\ 1 \in DOMAIN market_fee_per_player
    /\ fee_of(market_fee_per_player, 1) = DefaultFee

\* C26: the fee of every player is 0.30 or 0.15 in every state, and it never
\* rises: a fee of 0.15 stays 0.15 under every later operation, a repeated
\* research of Guilds included.
C26_FeeMonotone ==
    [][ \A p \in Players :
          /\ fee_of(market_fee_per_player, p) \in {DefaultFee, GuildsFee}
          /\ fee_of(market_fee_per_player', p) \in {DefaultFee, GuildsFee}
          /\ fee_of(market_fee_per_player', p) <= fee_of(market_fee_per_player, p) ]_vars

\* player 1 researched Guilds twice and has the fee 0.15, player 2 has 0.30
C26_Witness ==
    /\ Len(expenses) = 2
    /\ \A k \in 1..2 : /\ expenses[k][2] = "RESEARCH"
                       /\ expenses[k][4] = GuildsId
                       /\ expenses[k][3] = 1
    /\ fee_of(market_fee_per_player, 1) = GuildsFee
    /\ fee_of(market_fee_per_player, 2) = DefaultFee

\* the object id of the catalog action read in this step is 15
Names15(kinds) ==
    /\ pc = "consuming"
    /\ cur'[1] = "ACTION"
    /\ cur'[2][1] \in kinds
    /\ LookedUp(cur'[2])[2] = GuildsId

\* C27: only a Research of technology 15 lowers a fee.  Whenever the fee of
\* some player changes, the operation read was a Research of id 15 and the
\* player is the one who researched; a Build or a Queue (either variant)
\* whose building or unit id is 15 is recorded and changes no fee; a
\* Research of id 15 sets the fee of the researcher to 0.15 and appends the
\* row of its catalog cost as any Research does.
C27_OnlyResearchOfGuilds ==
    [][ /\ \A p \in Players :
             fee_of(market_fee_per_player', p) # fee_of(market_fee_per_player, p)
               => /\ Names15({"RESEARCH"})
                  /\ p = cur'[2][2].player_id
        /\ Names15({"BUILD", "QUEUE", "DE_QUEUE"})
             => /\ RowAppended
                /\ expenses'[Len(expenses')][Col("id")] = GuildsId
                /\ market_fee_per_player' = market_fee_per_player
        /\ Names15({"RESEARCH"}) /\ pc' # "aborted"
             => /\ fee_of(market_fee_per_player', cur'[2][2].player_id) = GuildsFee
                /\ RowAppended
                /\ \A row \in { expenses'[Len(expenses')] },
                      e \in { cost_to_expense(aoe_data.techs["15"].cost, << >>) } :
                       /\ row[Col("type")] = "RESEARCH"
                       /\ row[Col("player")] = cur'[2][2].player_id
                       /\ row[Col("id")] = GuildsId
                       /\ row[Col("wood")] = e.wood /\ row[Col("food")] = e.food
                       /\ row[Col("gold")] = e.gold /\ row[Col("stone")] = e.stone
                       /\ row[Col("food")] = 300 * Hundredths
                       /\ row[Col("gold")] = 200 * Hundredths ]_vars

\* player 1 queued the unit 15 and then built the building 15: two rows and
\* the fee 0.30 as before
C27_Witness ==
    /\ Len(expenses) = 2
    /\ expenses[1][2] \in {"QUEUE", "DE_QUEUE"} /\ expenses[1][4] = GuildsId
    /\ expenses[2][2] = "BUILD" /\ expenses[2][4] = GuildsId
    /\ \A k \in 1..2 : expenses[k][3] = 1
    /\ fee_of(market_fee_per_player, 1) = DefaultFee

====
